---- MODULE Spec2Model ----
(***************************************************************************)
(* Model of the fetch wrapper of HypaVerse/Sale-Page (src/unnamed/part_000): *)
(* the URL builder getHost / buildUrlQuery, the props resolver getProps,    *)
(* the three request executors withoutBody / withBody / withText, the       *)
(* timeout racer withTimeout and the facade api.get / api.post / api.text.  *)
(*                                                                         *)
(* JavaScript strings are sequences of one-character strings, so that       *)
(* substr / substring / template-literal concatenation are computed on     *)
(* characters.  Every JavaScript value is a record [t, v, entries] of one   *)
(* shape: t is the type tag, v the characters of a string / the decimal     *)
(* digits of a number / the name of an Error, entries the own properties    *)
(* of an object in insertion order.                                        *)
(***************************************************************************)
EXTENDS Integers, Sequences, FiniteSets, TLC

VARIABLES
    env,         \* process.env: DEFAULT_API_HOST, DEFAULT_NODE_HOST, DEFAULT_API_PORT, DEFAULT_API_VERSION
    args,        \* the arguments of the pure function under application (getProps / getHost)
    ret,         \* [done, val]: the value that application returned
    op,          \* the facade operation called: "none", "get", "post", "text"
    props,       \* the IProps descriptor handed to the facade operation
    pc,          \* position of the executor's async body
    request,     \* what was handed to fetch: [sent, url, method, body]
    fetchP,      \* the promise returned by fetch
    bodyP,       \* the promise returned by response.json() / response.text()
    opResult,    \* the promise returned by the executor (withoutBody / withBody / withText)
    timer,       \* the setTimeout of withTimeout: "none", "armed", "fired"
    timeout,     \* the delay handed to setTimeout
    startedAt,   \* the time at which setTimeout was called
    now,         \* the clock
    delivered,   \* the promise returned by the facade operation (Promise.race)
    settleOrder  \* the order in which the two branches of the race settled

callVars == <<op, props, pc, request, fetchP, bodyP, opResult, timer, timeout,
              startedAt, delivered, settleOrder>>
vars == <<env, args, ret, op, props, pc, request, fetchP, bodyP, opResult, timer,
          timeout, startedAt, now, delivered, settleOrder>>

-----------------------------------------------------------------------------
(* Bounds of the model. *)

\* most own properties in a query mapping
MaxQueryKeys == 2
\* the clock stops at MaxTime
MaxTime == 20000
\* the clock advances by TickStep
TickStep == 5000

-----------------------------------------------------------------------------
(* Strings: sequences of characters. *)

Range(s) == {s[i] : i \in 1..Len(s)}

Digits == <<"0", "1", "2", "3", "4", "5", "6", "7", "8", "9">>

IsDigit(c) == c \in Range(Digits)

DigitVal(c) == (CHOOSE i \in 1..10 : Digits[i] = c) - 1

RECURSIVE NumVal(_)
NumVal(s) == IF s = <<>> THEN 0
             ELSE 10 * NumVal(SubSeq(s, 1, Len(s) - 1)) + DigitVal(s[Len(s)])

RECURSIVE Join(_, _)
Join(parts, sep) ==
    IF parts = <<>> THEN <<>>
    ELSE IF Len(parts) = 1 THEN parts[1]
    ELSE parts[1] \o sep \o Join(Tail(parts), sep)

IsPrefix(p, s) == Len(p) <= Len(s) /\ SubSeq(s, 1, Len(p)) = p

IsSuffix(p, s) == Len(p) <= Len(s) /\ SubSeq(s, Len(s) - Len(p) + 1, Len(s)) = p

-----------------------------------------------------------------------------
(* JavaScript values. *)

Undefined == [t |-> "undefined", v |-> <<>>, entries |-> <<>>]
Null == [t |-> "null", v |-> <<>>, entries |-> <<>>]
Str(s) == [t |-> "str", v |-> s, entries |-> <<>>]
Num(d) == [t |-> "num", v |-> d, entries |-> <<>>]
Err(name) == [t |-> "error", v |-> name, entries |-> <<>>]
Obj(es) == [t |-> "obj", v |-> <<>>, entries |-> es]
Prop(key, val) == [k |-> key, val |-> val]

\* ToBoolean
Falsy(x) ==
    \/ x.t \in {"undefined", "null"}
    \/ x.t = "str" /\ x.v = <<>>
    \/ x.t = "num" /\ x.v = <<"0">>

\* a || b
Or(a, b) == IF Falsy(a) THEN b ELSE a

\* ToString, as applied by a template literal `${x}`
ToStr(x) ==
    CASE x.t = "undefined" -> <<"u", "n", "d", "e", "f", "i", "n", "e", "d">>
      [] x.t = "null" -> <<"n", "u", "l", "l">>
      [] x.t = "obj" -> <<"[", "o", "b", "j", "e", "c", "t", " ", "O", "b", "j", "e", "c", "t", "]">>
      [] OTHER -> x.v

\* key in obj, obj[key] for an object's own properties
HasProperty(obj, key) == \E i \in 1..Len(obj.entries) : obj.entries[i].k = key

GetProperty(obj, key) ==
    IF HasProperty(obj, key)
    THEN obj.entries[CHOOSE i \in 1..Len(obj.entries) : obj.entries[i].k = key].val
    ELSE Undefined

\* A property key is an array index when it is the canonical decimal form of an
\* integer below 2^32 - 1.  Every canonical decimal of at most nine digits is one;
\* the keys of the model are shorter than that.
IsArrayIndex(key) ==
    /\ Len(key) >= 1
    /\ Len(key) <= 9
    /\ \A i \in 1..Len(key) : IsDigit(key[i])
    /\ Len(key) = 1 \/ key[1] # "0"

RECURSIVE Ascending(_)
Ascending(S) ==
    IF S = {} THEN <<>>
    ELSE LET m == CHOOSE k \in S : \A o \in S : NumVal(k) <= NumVal(o)
         IN <<m>> \o Ascending(S \ {m})

NotArrayIndex(key) == ~IsArrayIndex(key)

InsertedKeys(obj) == [i \in 1..Len(obj.entries) |-> obj.entries[i].k]

\* Object.keys(obj): the array-index keys in ascending numeric order, then the
\* other string keys in the order they were created.
ObjectKeys(obj) ==
    Ascending({k \in Range(InsertedKeys(obj)) : IsArrayIndex(k)})
        \o SelectSeq(InsertedKeys(obj), NotArrayIndex)

-----------------------------------------------------------------------------
(* enum Service of types/index. *)

ServicePROXY == Num(<<"0">>)
ServiceNODE == Num(<<"1">>)

-----------------------------------------------------------------------------
(* buildUrlQuery and getHost. *)

\* encodes the "&" of a value, as encodeURIComponent would
RECURSIVE EncodeAmp(_)
EncodeAmp(str) ==
    IF str = <<>> THEN <<>>
    ELSE (IF Head(str) = "&" THEN <<"%", "2", "6">> ELSE <<Head(str)>>)
             \o EncodeAmp(Tail(str))

QueryPairEncoded(query, key) ==
    key \o <<"=">> \o EncodeAmp(ToStr(GetProperty(query, key)))

QueryPair(query, key) == key \o <<"=">> \o ToStr(GetProperty(query, key))

buildUrlQuery(query) ==
    LET keys == ObjectKeys(query)
    IN Join([i \in 1..Len(keys) |-> QueryPair(query, keys[i])], <<"&">>)

DefaultApiHost ==
    <<"h", "t", "t", "p", "s", ":", "/", "/", "a", "p", "i", ".", "m", "a", "i", "n",
      "n", "e", "t", ".", "k", "l", "e", "v", "e", "r", ".", "f", "i", "n", "a", "n",
      "c", "e">>

DefaultNodeHost ==
    <<"h", "t", "t", "p", "s", ":", "/", "/", "n", "o", "d", "e", ".", "m", "a", "i",
      "n", "n", "e", "t", ".", "k", "l", "e", "v", "e", "r", ".", "f", "i", "n", "a",
      "n", "c", "e">>

\* hostService[service || 0]; service is a Service or missing
hostService(e, service) ==
    IF Or(service, Num(<<"0">>)) = ServiceNODE
    THEN Or(e.DEFAULT_NODE_HOST, Str(DefaultNodeHost)).v
    ELSE Or(e.DEFAULT_API_HOST, Str(DefaultApiHost)).v

\* strips every trailing slash, as a loop or host.replace(/\/+$/, '') would
RECURSIVE StripAllTrailingSlashes(_)
StripAllTrailingSlashes(host) ==
    IF Len(host) >= 1 /\ host[Len(host)] = "/"
    THEN StripAllTrailingSlashes(SubSeq(host, 1, Len(host) - 1))
    ELSE host

\* if (host.substr(host.length - 1) === '/') host = host.substring(0, host.length - 1)
StripTrailingSlash(host) ==
    IF Len(host) >= 1 /\ SubSeq(host, Len(host), Len(host)) = <<"/">>
    THEN SubSeq(host, 1, Len(host) - 1)
    ELSE host

\* if (service === Service.PROXY) { if (port) port = `:${port}`; host = `${host}${port}/${apiVersion}` }
WithVersion(e, host, service, apiVersion) ==
    LET port == Or(e.DEFAULT_API_PORT, Str(<<>>))
    IN IF service = ServicePROXY
       THEN host \o (IF ~Falsy(port) THEN <<":">> \o port.v ELSE port.v)
                 \o <<"/">> \o ToStr(apiVersion)
       ELSE host

\* if (query) urlParam = `?${buildUrlQuery(query)}`
UrlParam(query) == IF ~Falsy(query) THEN <<"?">> \o buildUrlQuery(query) ELSE <<>>

getHost(e, route, query, service, apiVersion) ==
    WithVersion(e, StripTrailingSlash(hostService(e, service)), service, apiVersion)
        \o <<"/">> \o ToStr(route) \o UrlParam(query)

-----------------------------------------------------------------------------
(* getProps. *)

FieldNames == {"route", "query", "body", "apiVersion", "service", "refreshTime"}

defaultValues(e) ==
    [route |-> Str(<<"/">>),
     service |-> ServicePROXY,
     apiVersion |-> Or(e.DEFAULT_API_VERSION, Str(<<"v", "1", ".", "0">>)),
     refreshTime |-> Num(<<"6", "0">>)]

\* the get trap of the Proxy: a descriptor is a function from its own keys to values
ProxyGet(e, target, name) ==
    IF name \in DOMAIN target THEN target[name]
    ELSE IF name \in DOMAIN defaultValues(e) THEN defaultValues(e)[name]
    ELSE Undefined

getProps(e, target) == [name \in FieldNames |-> ProxyGet(e, target, name)]

-----------------------------------------------------------------------------
(* Inputs of the pure functions. *)

\* a key the caller left out of the descriptor
Absent == [t |-> "absent", v |-> <<>>, entries |-> <<>>]

\* the descriptor with the own keys that are not left out
Descriptor(d) == [n \in {m \in DOMAIN d : d[m] # Absent} |-> d[n]]

EnvOf(apiHost, nodeHost, port, version) ==
    [DEFAULT_API_HOST |-> apiHost, DEFAULT_NODE_HOST |-> nodeHost,
     DEFAULT_API_PORT |-> port, DEFAULT_API_VERSION |-> version]

NoEnv == EnvOf(Undefined, Undefined, Undefined, Undefined)

QueryKeys == {<<"b">>, <<"a">>, <<"2">>, <<"1", "0">>}

QueryValues == {Str(<<"x", "&", "y">>), Num(<<"7">>)}

Injective(f) == \A i, j \in DOMAIN f : f[i] = f[j] => i = j

\* the object literals with at most MaxQueryKeys distinct keys, in every insertion order
QueryObjects ==
    {Obj([i \in 1..n |-> Prop(ks[i], vs[i])]) :
        <<n, ks, vs>> \in
            UNION {{<<m, k, w>> : k \in {f \in [1..m -> QueryKeys] : Injective(f)},
                                  w \in [1..m -> QueryValues]} : m \in 0..MaxQueryKeys}}

PropsEnvs ==
    {EnvOf(Undefined, Undefined, Undefined, ver) :
        ver \in {Undefined, Str(<<>>), Str(<<"v", "2">>)}}

PropsTargets ==
    {Descriptor(d) : d \in
        [route : {Absent, Undefined, Null, Str(<<"r">>)},
         query : {Absent, Undefined, Obj(<<Prop(<<"a">>, Num(<<"7">>))>>)},
         body : {Absent, Null},
         apiVersion : {Absent, Undefined, Str(<<"v", "3">>)},
         service : {Absent, Undefined, ServiceNODE, ServicePROXY},
         refreshTime : {Absent, Null, Num(<<"5">>)}]}

UrlEnvs ==
    {EnvOf(apiHost, nodeHost, port, Undefined) :
        apiHost \in {Undefined, Str(<<>>), Str(<<"h">>), Str(<<"h", "/">>),
                     Str(<<"h", "/", "/">>)},
        nodeHost \in {Undefined, Str(<<"n", "/">>)},
        port \in {Undefined, Str(<<"8", "0">>)}}

UrlArgs ==
    [route : {Str(<<"r">>), Str(<<>>)},
     query : {Undefined} \cup QueryObjects,
     service : {Undefined, ServicePROXY, ServiceNODE},
     apiVersion : {Undefined, Str(<<"v", "1", ".", "0">>)}]

NotApplied == [done |-> FALSE, val |-> Undefined]

-----------------------------------------------------------------------------
(* Promises, and the facade call at rest: no operation has been called. *)

Pending == [st |-> "pending", val |-> Undefined]
Fulfilled(x) == [st |-> "fulfilled", val |-> x]
Rejected(x) == [st |-> "rejected", val |-> x]

\* the promise of fetch: fulfilled with a Response (its ok flag and the text of
\* its body) or rejected with val
FetchPending == [st |-> "pending", val |-> Undefined, ok |-> FALSE, text |-> <<>>]

NoRequest == [sent |-> FALSE, url |-> <<>>, method |-> <<>>, body |-> Undefined]

CallIdle ==
    /\ op = "none"
    /\ props = <<>>
    /\ pc = "idle"
    /\ request = NoRequest
    /\ fetchP = FetchPending
    /\ bodyP = Pending
    /\ opResult = Pending
    /\ timer = "none"
    /\ timeout = 0
    /\ startedAt = 0
    /\ now = 0
    /\ delivered = Pending
    /\ settleOrder = <<>>

-----------------------------------------------------------------------------
(* SpecProps: one read through the proxy getProps returns. *)

InitProps ==
    /\ env \in PropsEnvs
    /\ args \in [target : PropsTargets, name : FieldNames]
    /\ ret = NotApplied
    /\ CallIdle

ReadProp ==
    /\ ~ret.done
    /\ ret' = [done |-> TRUE, val |-> getProps(env, args.target)[args.name]]
    /\ UNCHANGED <<env, args, now>>
    /\ UNCHANGED callVars

SpecProps == InitProps /\ [][ReadProp]_vars

-----------------------------------------------------------------------------
(* SpecUrl: one application of getHost. *)

InitUrl ==
    /\ env \in UrlEnvs
    /\ args \in UrlArgs
    /\ ret = NotApplied
    /\ CallIdle

BuildUrl ==
    /\ ~ret.done
    /\ ret' = [done |-> TRUE,
               val |-> Str(getHost(env, args.route, args.query, args.service,
                                   args.apiVersion))]
    /\ UNCHANGED <<env, args, now>>
    /\ UNCHANGED callVars

SpecUrl == InitUrl /\ [][BuildUrl]_vars

-----------------------------------------------------------------------------
(* JSON.stringify and Response.json over the values of the model. *)

Quoted(str) == <<"\"">> \o str \o <<"\"">>

\* JSON.stringify of a value that is no object
StringifyScalar(x) ==
    CASE x.t = "null" -> <<"n", "u", "l", "l">>
      [] x.t = "str" -> Quoted(x.v)
      [] OTHER -> x.v

\* JSON.stringify(x): undefined for undefined; an object's own properties in
\* Object.keys order, those of value undefined left out.  An object that refers
\* to itself (t = "cyclic") makes it throw; Call deals with that.
JSONstringify(x) ==
    IF x.t = "undefined" THEN Undefined
    ELSE IF x.t = "obj"
    THEN LET keys == SelectSeq(ObjectKeys(x),
                               LAMBDA k : GetProperty(x, k).t # "undefined")
         IN Str(<<"{">>
                \o Join([i \in 1..Len(keys) |->
                            Quoted(keys[i]) \o <<":">>
                                \o StringifyScalar(GetProperty(x, keys[i]))],
                        <<",">>)
                \o <<"}">>)
    ELSE Str(StringifyScalar(x))

\* the values an error field takes in the bodies of the model
ErrorFieldValues == {Str(<<"b", "a", "d">>), Null, Num(<<"4", "0", "4">>)}

\* the JSON values the server sends
JsonValues ==
    {Null, Str(<<"b", "a", "d">>), Num(<<"1">>), Obj(<<>>),
     Obj(<<Prop(<<"x">>, Num(<<"1">>))>>)}
        \cup {Obj(<<Prop(<<"e", "r", "r", "o", "r">>, e)>>) : e \in ErrorFieldValues}

\* the response bodies: the JSON texts, a page of HTML and the empty body
BodyTexts == {JSONstringify(j).v : j \in JsonValues} \cup {<<"<", "h", "t", "m", "l", ">">>, <<>>}

\* JSON.parse: the value whose text this is, or a SyntaxError
JSONparse(text) ==
    IF \E j \in JsonValues : JSONstringify(j).v = text
    THEN Fulfilled(CHOOSE j \in JsonValues : JSONstringify(j).v = text)
    ELSE Rejected(Err(<<"S", "y", "n", "t", "a", "x", "E", "r", "r", "o", "r">>))

-----------------------------------------------------------------------------
(* The executors withoutBody, withBody, withText. *)

DefaultTimeout == 10000

Get == <<"G", "E", "T">>
Post == <<"P", "O", "S", "T">>

\* api.get, api.post, api.text: the executor and the method each hands to it
Facade(o) ==
    CASE o = "get" -> [executor |-> "withoutBody", method |-> Get]
      [] o = "post" -> [executor |-> "withBody", method |-> Post]
      [] o = "text" -> [executor |-> "withText", method |-> Get]

TypeError == Err(<<"T", "y", "p", "e", "E", "r", "r", "o", "r">>)

\* { data: null, error, code: 'internal_error' }
Envelope(error) ==
    Obj(<<Prop(<<"d", "a", "t", "a">>, Null),
          Prop(<<"e", "r", "r", "o", "r">>, error),
          Prop(<<"c", "o", "d", "e">>,
               Str(<<"i", "n", "t", "e", "r", "n", "a", "l", "_", "e", "r", "r", "o", "r">>))>>)

\* reports the text of the caught value, as error.message or String(error) would
CatchAsText(error) == Fulfilled(Envelope(Str(ToStr(error))))

\* catch (error) { return Promise.resolve({ data: null, error, code: 'internal_error' }) }
Catch(error) == Fulfilled(Envelope(error))

\* reports the whole parsed body, the .error left off
ErrorResponseWholeBody(bp) ==
    IF bp.st = "rejected" THEN Catch(bp.val)
    ELSE IF bp.val.t \in {"null", "undefined"} THEN Catch(TypeError)
    ELSE Fulfilled(Envelope(bp.val))

\* if (!response.ok) return Promise.resolve({ data: null, error: (await
\* response.json()).error, code: 'internal_error' }), inside the try: bp is the
\* settled promise of response.json().  Reading .error of null throws a TypeError.
ErrorResponse(bp) ==
    IF bp.st = "rejected" THEN Catch(bp.val)
    ELSE IF bp.val.t \in {"null", "undefined"} THEN Catch(TypeError)
    ELSE Fulfilled(Envelope(GetProperty(bp.val, <<"e", "r", "r", "o", "r">>)))

\* wraps the body of a success in an envelope
ReturnedInEnvelope(bp) ==
    IF bp.st = "fulfilled"
    THEN Fulfilled(Obj(<<Prop(<<"d", "a", "t", "a">>, Str(ToStr(bp.val))),
                         Prop(<<"e", "r", "r", "o", "r">>, Null)>>))
    ELSE bp

\* return response.json() / return response.text(): the promise is returned, not
\* awaited, so the executor's promise follows it, a rejection included; the catch
\* does not see it.
Returned(bp) == bp

\* response.json() or response.text() once the body has been read
BodyRead(kind, text) == IF kind = "json" THEN JSONparse(text) ELSE Fulfilled(Str(text))

\* which of the two the executor called
BodyKind == IF pc = "awaitErrorJson" \/ Facade(op).executor # "withText" THEN "json"
            ELSE "text"

\* the executor's promise once the body promise has settled as bp
AfterBody(bp) == IF pc = "awaitErrorJson" THEN ErrorResponse(bp) ELSE Returned(bp)

-----------------------------------------------------------------------------
(* withTimeout. *)

\* resolve({ data: null, error: 'Fetch timeout', code: 'internal_error' })
TimeoutRejects ==
    Rejected(Envelope(Str(<<"F", "e", "t", "c", "h", " ", "t", "i", "m", "e", "o", "u", "t">>)))

TimeoutOutcome ==
    Fulfilled(Envelope(Str(<<"F", "e", "t", "c", "h", " ", "t", "i", "m", "e", "o", "u", "t">>)))

\* the timer callback runs with no regard to the delay
TimerDueAtOnce == TRUE

\* setTimeout(callback, timeout): the callback does not run before the delay has passed
TimerDue == now - startedAt >= timeout

\* the promise of the race takes every settlement, not only the first
RaceLast(current, outcome) == outcome

\* Promise.race: the first settlement settles the promise; later ones are ignored
Race(current, outcome) == IF current.st = "pending" THEN outcome ELSE current

-----------------------------------------------------------------------------
(* Spec: one call of a facade operation. *)

Cyclic == [t |-> "cyclic", v |-> <<>>, entries |-> <<>>]

CallEnvs == {NoEnv, EnvOf(Str(<<"h", "/">>), Undefined, Str(<<"8", "0">>), Str(<<"v", "2">>))}

CallProps ==
    {Descriptor(d) : d \in
        {[route |-> Absent, query |-> Absent, service |-> Absent,
          apiVersion |-> Absent, body |-> Absent],
         [route |-> Str(<<"r">>), query |-> Obj(<<Prop(<<"a">>, Num(<<"7">>))>>),
          service |-> Absent, apiVersion |-> Absent, body |-> Absent],
         [route |-> Str(<<"r">>), query |-> Absent, service |-> ServiceNODE,
          apiVersion |-> Absent, body |-> Absent],
         [route |-> Str(<<"r">>), query |-> Absent, service |-> Absent,
          apiVersion |-> Undefined, body |-> Absent],
         [route |-> Str(<<"r">>), query |-> Absent, service |-> Absent,
          apiVersion |-> Absent, body |-> Obj(<<Prop(<<"x">>, Num(<<"1">>))>>)],
         [route |-> Str(<<"r">>), query |-> Absent, service |-> Absent,
          apiVersion |-> Absent, body |-> Cyclic]}}

ThrownValues == {TypeError, Str(<<"b", "o", "o", "m">>)}

Init ==
    /\ env \in CallEnvs
    /\ args = <<>>
    /\ ret = NotApplied
    /\ CallIdle

\* the settlement of the executor's promise reaches the race before any timer
\* callback can run
SettleOp(result) ==
    /\ opResult' = result
    /\ delivered' = Race(delivered, result)
    /\ settleOrder' = Append(settleOrder, "op")

\* api.get(p), api.post(p), api.text(p): the executor runs up to its first await,
\* then withTimeout arms the timer
Call(o, p) ==
    /\ pc = "idle"
    /\ now + DefaultTimeout <= MaxTime
    /\ op' = o
    /\ props' = p
    /\ LET view == getProps(env, p)
           url == getHost(env, view.route, view.query, view.service, view.apiVersion)
       IN IF Facade(o).executor = "withBody" /\ view.body.t = "cyclic"
          THEN /\ pc' = "done"
               /\ request' = request
               /\ SettleOp(Catch(TypeError))
          ELSE /\ pc' = "awaitFetch"
               /\ request' = [sent |-> TRUE, url |-> url, method |-> Facade(o).method,
                              body |-> IF Facade(o).executor = "withBody"
                                       THEN JSONstringify(view.body) ELSE Undefined]
               /\ UNCHANGED <<opResult, delivered, settleOrder>>
    /\ timer' = "armed"
    /\ timeout' = DefaultTimeout
    /\ startedAt' = now
    /\ UNCHANGED <<env, args, ret, fetchP, bodyP, now>>

\* fetch rejects: the await throws inside the try
FetchRejects(v) ==
    /\ pc = "awaitFetch"
    /\ fetchP' = [FetchPending EXCEPT !.st = "rejected", !.val = v]
    /\ pc' = "done"
    /\ SettleOp(Catch(v))
    /\ UNCHANGED <<env, args, ret, op, props, request, bodyP, timer, timeout,
                   startedAt, now>>

\* fetch resolves with a Response; the executor calls response.json() or
\* response.text() and is suspended on it
FetchResponds(ok, text) ==
    /\ pc = "awaitFetch"
    /\ fetchP' = [FetchPending EXCEPT !.st = "fulfilled", !.ok = ok, !.text = text]
    /\ pc' = IF ok THEN "returnedBody" ELSE "awaitErrorJson"
    /\ UNCHANGED <<env, args, ret, op, props, request, bodyP, opResult, timer,
                   timeout, startedAt, now, delivered, settleOrder>>

\* the body arrives and is parsed
BodyArrives ==
    /\ pc \in {"awaitErrorJson", "returnedBody"}
    /\ bodyP' = BodyRead(BodyKind, fetchP.text)
    /\ pc' = "done"
    /\ SettleOp(AfterBody(bodyP'))
    /\ UNCHANGED <<env, args, ret, op, props, request, fetchP, timer, timeout,
                   startedAt, now>>

\* the connection breaks while the body is read
BodyFails(v) ==
    /\ pc \in {"awaitErrorJson", "returnedBody"}
    /\ bodyP' = Rejected(v)
    /\ pc' = "done"
    /\ SettleOp(AfterBody(bodyP'))
    /\ UNCHANGED <<env, args, ret, op, props, request, fetchP, timer, timeout,
                   startedAt, now>>

\* the timer callback runs
TimerFires ==
    /\ timer = "armed"
    /\ TimerDue
    /\ timer' = "fired"
    /\ delivered' = Race(delivered, TimeoutOutcome)
    /\ settleOrder' = Append(settleOrder, "timer")
    /\ UNCHANGED <<env, args, ret, op, props, pc, request, fetchP, bodyP, opResult,
                   timeout, startedAt, now>>

Tick ==
    /\ now < MaxTime
    /\ now' = IF now + TickStep > MaxTime THEN MaxTime ELSE now + TickStep
    /\ UNCHANGED <<env, args, ret>>
    /\ UNCHANGED callVars

Next ==
    \/ \E o \in {"get", "post", "text"}, p \in CallProps : Call(o, p)
    \/ \E v \in ThrownValues : FetchRejects(v)
    \/ \E ok \in BOOLEAN, text \in BodyTexts : FetchResponds(ok, text)
    \/ BodyArrives
    \/ BodyFails(TypeError)
    \/ TimerFires
    \/ Tick

Spec == Init /\ [][Next]_vars

\* the clock advances and the event loop runs a due timer callback; nothing makes
\* the server answer
FairSpec == Spec /\ WF_vars(Tick) /\ WF_vars(TimerFires)

-----------------------------------------------------------------------------
(* Properties of the executors and of the facade (Spec, FairSpec). *)

\* the envelope { data: null, error: e, code: "internal_error" }
FailureEnvelope(e) ==
    Obj(<<[k |-> <<"d", "a", "t", "a">>, val |-> Null],
          [k |-> <<"e", "r", "r", "o", "r">>, val |-> e],
          [k |-> <<"c", "o", "d", "e">>,
           val |-> Str(<<"i", "n", "t", "e", "r", "n", "a", "l", "_", "e", "r", "r", "o", "r">>)]>>)

FetchTimeout == Str(<<"F", "e", "t", "c", "h", " ", "t", "i", "m", "e", "o", "u", "t">>)

\* C1: whatever the HTTP call does, neither the executor's promise nor the facade
\* operation's promise rejects: every failure is delivered as a resolved value.
C1_NeverRejects == opResult.st # "rejected" /\ delivered.st # "rejected"

\* the text of the JSON object { "error": e }
C2_Body(e) ==
    <<"{", "\"", "e", "r", "r", "o", "r", "\"", ":">> \o JSONstringify(e).v \o <<"}">>

\* C2: for each executor, a non-success response whose body is the JSON object
\* {error: e} makes the executor resolve with {data: null, error: e, code:
\* "internal_error"}, for every e.
C2_ErrorEnvelope ==
    \A e \in ErrorFieldValues :
        (/\ fetchP.st = "fulfilled"
         /\ ~fetchP.ok
         /\ fetchP.text = C2_Body(e)
         /\ bodyP.st = "fulfilled")
            => opResult = Fulfilled(FailureEnvelope(e))

\* the text executor has answered a non-success response of body {"error":"bad"}
C2_Witness ==
    /\ op = "text"
    /\ fetchP.st = "fulfilled"
    /\ ~fetchP.ok
    /\ fetchP.text = <<"{", "\"", "e", "r", "r", "o", "r", "\"", ":", "\"", "b", "a", "d", "\"", "}">>
    /\ bodyP.st = "fulfilled"
    /\ opResult = Fulfilled(FailureEnvelope(Str(<<"b", "a", "d">>)))

\* C3: for each executor, when fetch rejects with v the executor resolves with
\* {data: null, error: v, code: "internal_error"}, error being v itself.
C3_ThrownValue ==
    fetchP.st = "rejected" => opResult = Fulfilled(FailureEnvelope(fetchP.val))

\* the with-body executor has caught a TypeError thrown by fetch
C3_Witness ==
    /\ op = "post"
    /\ fetchP.st = "rejected"
    /\ fetchP.val = Err(<<"T", "y", "p", "e", "E", "r", "r", "o", "r">>)
    /\ opResult.st = "fulfilled"

\* C4: when fetch never settles the facade operation eventually resolves with
\* {data: null, error: "Fetch timeout", code: "internal_error"}, and while fetch
\* is unsettled the operation is resolved in no state in which the timer has not
\* fired, the timeout (10000) having elapsed since the call.
C4_TimeoutOnly ==
    /\ <>[](pc = "awaitFetch") => <>(delivered = Fulfilled(FailureEnvelope(FetchTimeout)))
    /\ []((pc = "awaitFetch" /\ delivered.st # "pending") =>
            /\ delivered = Fulfilled(FailureEnvelope(FetchTimeout))
            /\ timer = "fired"
            /\ now - startedAt >= 10000)

\* the timeout envelope has been delivered while fetch is still unsettled
C4_Witness ==
    /\ pc = "awaitFetch"
    /\ op \in {"get", "post", "text"}
    /\ timer = "fired"
    /\ delivered = Fulfilled(FailureEnvelope(FetchTimeout))

\* C5: the facade's promise is pending until a branch settles; when the executor
\* settles first the caller receives the executor's own outcome, when the timer
\* fires first the caller receives the timeout envelope, and nothing else ever.
C5_FirstSettles ==
    IF settleOrder = <<>> THEN delivered.st = "pending"
    ELSE IF Head(settleOrder) = "op" THEN delivered = opResult /\ opResult.st # "pending"
    ELSE delivered = Fulfilled(FailureEnvelope(FetchTimeout))

\* the executor settled first, the timer fired after it, and the caller holds
\* the executor's result
C5_Witness ==
    /\ settleOrder = <<"op", "timer">>
    /\ delivered = opResult
    /\ delivered # Fulfilled(FailureEnvelope(FetchTimeout))

\* C6: on a success response of JSON body J the no-body and with-body executors
\* resolve with J itself, not with an envelope around it; the text executor
\* resolves with the text of the body.
C6_SuccessVerbatim ==
    (fetchP.st = "fulfilled" /\ fetchP.ok /\ bodyP.st = "fulfilled") =>
        IF op = "text" THEN opResult = Fulfilled(Str(fetchP.text))
        ELSE \A J \in JsonValues :
                fetchP.text = JSONstringify(J).v => opResult = Fulfilled(J)

\* the no-body executor has returned the object of the body {"x":1}
C6_Witness ==
    /\ op = "get"
    /\ fetchP.st = "fulfilled"
    /\ fetchP.ok
    /\ fetchP.text = <<"{", "\"", "x", "\"", ":", "1", "}">>
    /\ opResult = Fulfilled(Obj(<<[k |-> <<"x">>, val |-> Num(<<"1">>)]>>))

\* C10: the losing branch is not cancelled and does not reach the caller: once
\* settled, the facade's promise never changes; the timer's firing leaves the
\* request and the executor as they are; the executor's settling leaves the timer
\* armed, and an armed timer fires.
C10_LoserIgnored ==
    /\ [][/\ delivered.st # "pending" => delivered' = delivered
          /\ (timer = "armed" /\ timer' = "fired") =>
                /\ pc' = pc
                /\ request' = request
                /\ fetchP' = fetchP
                /\ opResult' = opResult
          /\ (opResult.st = "pending" /\ opResult'.st # "pending") =>
                /\ timer' # "none"
                /\ timer' = "fired" <=> timer = "fired"
         ]_vars
    /\ (timer = "armed") ~> (timer = "fired")

\* the timer won, the request completed afterwards, and the caller still holds
\* the timeout envelope
C10_Witness ==
    /\ settleOrder = <<"timer", "op">>
    /\ opResult.st # "pending"
    /\ opResult # delivered
    /\ delivered = Fulfilled(FailureEnvelope(FetchTimeout))

-----------------------------------------------------------------------------
(* Properties of getProps (SpecProps). *)

C7_Nullish(x) == x.t \in {"undefined", "null"}

C7_Provided == IF args.name \in DOMAIN args.target THEN args.target[args.name]
               ELSE Undefined

C7_Default ==
    CASE args.name = "route" -> Str(<<"/">>)
      [] args.name = "service" -> ServicePROXY
      [] args.name = "apiVersion" ->
            IF env.DEFAULT_API_VERSION.t = "str" /\ env.DEFAULT_API_VERSION.v # <<>>
            THEN env.DEFAULT_API_VERSION
            ELSE Str(<<"v", "1", ".", "0">>)
      [] args.name = "refreshTime" -> Num(<<"6", "0">>)
      [] OTHER -> Undefined

\* C7: every field read through getProps is provided.field ?? defaults.field: a
\* field the caller gives no value (key left out, or present with undefined or
\* null) reads as its default, a field the caller set reads as the caller's
\* value, and a field absent from both reads as undefined.
C7_MergeWithDefaults ==
    ret.done =>
        ret.val = (IF C7_Nullish(C7_Provided) THEN C7_Default ELSE C7_Provided)

-----------------------------------------------------------------------------
(* Properties of getHost (SpecUrl). *)

C8_BaseHost ==
    IF args.service = ServiceNODE
    THEN (IF Falsy(env.DEFAULT_NODE_HOST) THEN DefaultNodeHost
          ELSE env.DEFAULT_NODE_HOST.v)
    ELSE (IF Falsy(env.DEFAULT_API_HOST) THEN DefaultApiHost
          ELSE env.DEFAULT_API_HOST.v)

\* the host without its last character when that is a slash, else the host
C8_OneSlashLess(host) ==
    CHOOSE s \in {SubSeq(host, 1, n) : n \in 0..Len(host)} :
        IF host # <<>> /\ host[Len(host)] = "/" THEN s \o <<"/">> = host
        ELSE s = host

C8_PortAndVersion ==
    IF args.service = ServicePROXY
    THEN (IF env.DEFAULT_API_PORT.t = "str" /\ env.DEFAULT_API_PORT.v # <<>>
          THEN <<":">> \o env.DEFAULT_API_PORT.v ELSE <<>>)
         \o <<"/">> \o ToStr(args.apiVersion)
    ELSE <<>>

C8_BeforeRoute == C8_OneSlashLess(C8_BaseHost) \o C8_PortAndVersion \o <<"/">>

\* C8: for the selectors PROXY and NODE, what precedes the route in getHost's
\* result is the service's base host less exactly one trailing slash, followed by
\* ":port" (when a port is configured) and "/apiVersion" if and only if the
\* service is PROXY; the route follows, and after it nothing or the "?" of the query.
C8_HostPart ==
    (ret.done /\ args.service \in {ServicePROXY, ServiceNODE}) =>
        LET pre == C8_BeforeRoute \o args.route.v
            rest == SubSeq(ret.val.v, Len(pre) + 1, Len(ret.val.v))
        IN /\ IsPrefix(pre, ret.val.v)
           /\ rest = <<>> \/ rest[1] = "?"

\* a PROXY URL built from a host ending in two slashes, with a port configured
C8_Witness ==
    /\ ret.done
    /\ args.service = ServicePROXY
    /\ env.DEFAULT_API_HOST = Str(<<"h", "/", "/">>)
    /\ env.DEFAULT_API_PORT = Str(<<"8", "0">>)
    /\ IsPrefix(<<"h", "/", ":", "8", "0", "/">>, ret.val.v)

C9_Rendered(query, keys) ==
    Join([i \in 1..Len(keys) |-> keys[i] \o <<"=">> \o ToStr(GetProperty(query, keys[i]))],
         <<"&">>)

C9_Position(keys, key) == CHOOSE i \in 1..Len(keys) : keys[i] = key

\* keys lists the inserted keys with the array-index keys first, in ascending
\* numeric order, and the other keys after them, in insertion order
C9_IndexFirst(keys, inserted) ==
    /\ Len(keys) = Len(inserted)
    /\ Range(keys) = Range(inserted)
    /\ \A i, j \in 1..Len(keys) : i < j =>
          /\ (IsArrayIndex(keys[i]) /\ IsArrayIndex(keys[j]))
                => NumVal(keys[i]) < NumVal(keys[j])
          /\ ~IsArrayIndex(keys[i]) =>
                /\ ~IsArrayIndex(keys[j])
                /\ C9_Position(inserted, keys[i]) < C9_Position(inserted, keys[j])

C9_Orders(inserted) ==
    {keys \in [1..Len(inserted) -> Range(inserted)] : C9_IndexFirst(keys, inserted)}

\* C9 as stated: with a query mapping the URL ends with the route, "?" and the
\* entries rendered key=value, joined by "&", in the order the keys were inserted,
\* keys and values verbatim; with no query mapping the URL ends with the route.
C9_InsertionOrder ==
    ret.done =>
        IsSuffix(<<"/">> \o args.route.v
                    \o (IF args.query.t = "obj"
                        THEN <<"?">> \o C9_Rendered(args.query, InsertedKeys(args.query))
                        ELSE <<>>),
                 ret.val.v)

\* C9 as amended: the entries are rendered with the array-index keys (canonical
\* decimal integers) first, in ascending numeric order, and the remaining keys
\* after them in the order they were inserted; the rest as stated.
C9_IndexKeysFirst ==
    ret.done =>
        /\ C9_Orders(InsertedKeys(args.query)) # {}
        /\ \A keys \in C9_Orders(InsertedKeys(args.query)) :
              IsSuffix(<<"/">> \o args.route.v
                          \o (IF args.query.t = "obj"
                              THEN <<"?">> \o C9_Rendered(args.query, keys)
                              ELSE <<>>),
                       ret.val.v)

\* a URL built from a mapping with the keys "10" and "2", inserted in that order,
\* and a value with "&" in it
C9_Witness ==
    /\ ret.done
    /\ args.query.t = "obj"
    /\ InsertedKeys(args.query) = <<<<"1", "0">>, <<"2">>>>
    /\ GetProperty(args.query, <<"1", "0">>) = Str(<<"x", "&", "y">>)
    /\ IsSuffix(<<"?", "2", "=", "7", "&", "1", "0", "=", "x", "&", "y">>, ret.val.v)

====
